---- MODULE Spec2Model ----
(***************************************************************************)
(* Geo-AID debugger (src/src/main.rs): the control panel (Debugger::show), *)
(* the render loop (main), the session handle (Runtime and its Drop) and   *)
(* the generation worker (runtime) with its control channel and its        *)
(* mutex-guarded hand-off slot.                                            *)
(*                                                                         *)
(* The optimizer (Rage), the projector and the script loader are external  *)
(* collaborators.  The optimizer state is represented by the number of     *)
(* cycles it has performed together with the parameters it was built from; *)
(* a figure is represented by the optimizer state it was materialized      *)
(* from.  Texts are sequences of one-character strings.                    *)
(***************************************************************************)
EXTENDS Integers, Sequences, FiniteSets, TLC

(***************************************************************************)
(* Bounds of the model.                                                    *)
(***************************************************************************)
\* Sessions that can be created during one run of the program.
MaxSessions == 2
\* Next messages that can be sent on one session's control channel.
MaxNext == 2

\* The same two bounds for the runs that explore every input of the
\* start-up form.
PanelMaxSessions == 1
PanelMaxNext == 1

\* The same two bounds for the runs that check progress under fairness.
FairMaxSessions == 1
FairMaxNext == 2

Sessions == 1..MaxSessions

(***************************************************************************)
(* Text inputs the operator can type into the two text fields, and the     *)
(* paths the file dialog can return.                                       *)
(***************************************************************************)
WorkerCountTexts == { <<"5","1","2">>, <<"0">>, <<"-","3">> }
MaxAdjustmentTexts == { <<"0",".","5">>, <<"-","1">>, <<"x">> }
Paths == { "good", "bad" }

Digits == { "0", "1", "2", "3", "4", "5", "6", "7", "8", "9" }

DigitValue(c) ==
    CASE c = "0" -> 0 [] c = "1" -> 1 [] c = "2" -> 2 [] c = "3" -> 3
      [] c = "4" -> 4 [] c = "5" -> 5 [] c = "6" -> 6 [] c = "7" -> 7
      [] c = "8" -> 8 [] c = "9" -> 9

AllDigits(s) == \A i \in 1..Len(s) : s[i] \in Digits

RECURSIVE DecimalValue(_)
DecimalValue(s) ==
    IF s = <<>> THEN 0
    ELSE 10 * DecimalValue(SubSeq(s, 1, Len(s) - 1)) + DigitValue(s[Len(s)])

None == [some |-> FALSE, val |-> 0]
Some(v) == [some |-> TRUE, val |-> v]

(***************************************************************************)
(* usize::from_str(text).ok(): an optional leading "+", then at least one  *)
(* decimal digit and nothing else.  A leading "-" is an invalid digit for  *)
(* an unsigned type.  (Texts are short, so no overflow.)                   *)
(***************************************************************************)
ParseUsize(s) ==
    LET body == IF s # <<>> /\ s[1] = "+" THEN Tail(s) ELSE s
    IN  IF body = <<>> \/ ~AllDigits(body) THEN None
        ELSE Some(DecimalValue(body))

(***************************************************************************)
(* f64::from_str(text).ok(), for texts over digits, signs and the point    *)
(* (no exponent, no "inf"/"nan" in the input alphabet): an optional sign,  *)
(* then digits with at most one point and at least one digit.  The value   *)
(* is kept exactly, as sign, digits and number of fraction digits.         *)
(***************************************************************************)
PointAt(s) ==
    IF \E i \in 1..Len(s) : s[i] = "."
    THEN CHOOSE i \in 1..Len(s) : s[i] = "." /\ \A j \in 1..(i - 1) : s[j] # "."
    ELSE 0

ParseF64(s) ==
    LET signed == s # <<>> /\ s[1] \in { "+", "-" }
        neg == s # <<>> /\ s[1] = "-"
        body == IF signed THEN Tail(s) ELSE s
        p == PointAt(body)
        int == IF p = 0 THEN body ELSE SubSeq(body, 1, p - 1)
        frac == IF p = 0 THEN <<>> ELSE SubSeq(body, p + 1, Len(body))
    IN  IF Len(int) + Len(frac) = 0 \/ ~AllDigits(int) \/ ~AllDigits(frac)
        THEN None
        ELSE Some([neg |-> neg, digits |-> DecimalValue(int \o frac),
                   scale |-> Len(frac)])

(***************************************************************************)
(* self.file.and_then(read_to_string).and_then(load_script): the file      *)
(* system and the script compiler are an oracle, the path "good" names a   *)
(* file that loads.                                                        *)
(***************************************************************************)
NoFile == "none"
LoadFile(f) == IF f = "good" THEN Some(f) ELSE None

(***************************************************************************)
(* The collaborators.                                                      *)
(***************************************************************************)
\* Rage::new(wc, &file)
RageNew(wc, script) == [workers |-> wc, script |-> script, cycles |-> 0]
\* rage.gen().bake_magnitudes(max_adjustment)
BakeMagnitudes(rage, ma) ==
    [baked |-> TRUE, from |-> ma, at |-> rage.cycles]
NoMagnitudes ==
    [baked |-> FALSE, from |-> [neg |-> FALSE, digits |-> 0, scale |-> 0],
     at |-> 0]
\* rage.gen_mut().cycle_prebaked(&magnitudes)
CyclePrebaked(rage, magnitudes) == [rage EXCEPT !.cycles = @ + 1]
\* Generated::default()
GeneratedDefault == [kind |-> "default", cycles |-> 0]
\* rage.get_figure(figure.clone())
GetFigure(rage) == [kind |-> "generated", cycles |-> rage.cycles]
\* A usize of the 64-bit target, as four limbs of 16 bits, least
\* significant first.
LimbBase == 65536
Usize(n) == << n % LimbBase, n \div LimbBase, 0, 0 >>

\* usize subtraction: the difference modulo 2^64 and whether it overflowed
OverflowingSub(x, y) ==
    LET d1 == x[1] - y[1]
        d2 == x[2] - y[2] - (IF d1 < 0 THEN 1 ELSE 0)
        d3 == x[3] - y[3] - (IF d2 < 0 THEN 1 ELSE 0)
        d4 == x[4] - y[4] - (IF d3 < 0 THEN 1 ELSE 0)
    IN  [value |-> << d1 % LimbBase, d2 % LimbBase,
                      d3 % LimbBase, d4 % LimbBase >>,
         overflow |-> d4 < 0]

\* main, line 262: the width reserved for the control panel
PanelWidth == 300

\* screen_width() and screen_height() of the resizable window, in pixels,
\* after `as usize`
ScreenWidths == { 299, 800 }
ScreenHeights == { 600 }

\* main, lines 261-264: the viewport handed to the projector
Viewport(w, h) ==
    << OverflowingSub(Usize(w), Usize(PanelWidth)).value, Usize(h) >>

\* projector::project(fig.clone(), &flags, viewport)
NoViewport == << Usize(0), Usize(0) >>
NoProjection == [items |-> "nothing", cycles |-> 0, viewport |-> NoViewport]
Project(generated, viewport) ==
    [items |-> IF generated.kind = "default" THEN "empty" ELSE "drawn",
     cycles |-> generated.cycles,
     viewport |-> viewport]

\* enum Message
Quit == "Quit"
NextMsg == "Next"

(***************************************************************************)
(* State.  UI thread: pc and the fields of Debugger; projected is the      *)
(* local `figure` of main.  Per session (Runtime plus its worker thread):  *)
(* the channel, the slot and its mutex, and the worker's locals.           *)
(* created counts the sessions made so far; sent is the history of the     *)
(* messages sent on each channel and rage0 the optimizer each worker was   *)
(* given; lastClick is the button clicked in the frame just shown ("" when *)
(* none was) and seen the cycles of the figure the render loop last read   *)
(* in the current session.                                                 *)
(***************************************************************************)
VARIABLES pc, file, file_valid, worker_count, worker_count_valid,
          max_adjustment, max_adjustment_valid, runtime, run, dialogOpen,
          projected, lastClick, seen,
          created, control, senderAlive, receiverAlive, generated,
          lockHolder, wpc, rage, magnitudes, wma, fig, sent, rage0

uiVars == <<pc, file, file_valid, worker_count, worker_count_valid,
            max_adjustment, max_adjustment_valid, runtime, run, dialogOpen,
            projected, lastClick, seen>>
panelVars == <<file, file_valid, worker_count, worker_count_valid,
               max_adjustment, max_adjustment_valid, runtime, run, dialogOpen,
               lastClick>>
chanVars == <<control, senderAlive, receiverAlive, sent, rage0>>
workerVars == <<wpc, rage, magnitudes, wma, fig>>
vars == <<pc, file, file_valid, worker_count, worker_count_valid,
          max_adjustment, max_adjustment_valid, runtime, run, dialogOpen,
          projected, lastClick, seen,
          created, control, senderAlive, receiverAlive, generated,
          lockHolder, wpc, rage, magnitudes, wma, fig, sent, rage0>>

NoRuntime == 0
NoRage == RageNew(0, NoFile)
NoAdjustment == [neg |-> FALSE, digits |-> 0, scale |-> 0]

\* Debugger::new, before any session exists
Init ==
    /\ pc = "frame"
    /\ file = NoFile
    /\ file_valid = TRUE
    /\ worker_count = <<"5","1","2">>
    /\ worker_count_valid = TRUE
    /\ max_adjustment = <<"0",".","5">>
    /\ max_adjustment_valid = TRUE
    /\ runtime = NoRuntime
    /\ run = FALSE
    /\ dialogOpen = FALSE
    /\ projected = NoProjection
    /\ lastClick = ""
    /\ seen = 0
    /\ created = 0
    /\ control = [s \in Sessions |-> <<>>]
    /\ senderAlive = [s \in Sessions |-> FALSE]
    /\ receiverAlive = [s \in Sessions |-> FALSE]
    /\ generated = [s \in Sessions |-> GeneratedDefault]
    /\ lockHolder = [s \in Sessions |-> "none"]
    /\ wpc = [s \in Sessions |-> "unborn"]
    /\ rage = [s \in Sessions |-> NoRage]
    /\ magnitudes = [s \in Sessions |-> NoMagnitudes]
    /\ wma = [s \in Sessions |-> NoAdjustment]
    /\ fig = [s \in Sessions |-> GeneratedDefault]
    /\ sent = [s \in Sessions |-> <<>>]
    /\ rage0 = [s \in Sessions |-> NoRage]

(***************************************************************************)
(* The render loop of main, one frame: lock the slot, project, draw,       *)
(* release, then show the control panel.                                   *)
(***************************************************************************)
\* main, line 256: `if let Some(dbg) = &debugger.runtime`
FrameStart ==
    /\ pc = "frame"
    /\ pc' = IF runtime = NoRuntime THEN "show" ELSE "lock"
    /\ lastClick' = ""
    /\ UNCHANGED <<file, file_valid, worker_count, worker_count_valid,
                   max_adjustment, max_adjustment_valid, runtime, run,
                   dialogOpen, projected, seen, created, chanVars, generated,
                   lockHolder, workerVars>>

\* main, line 257: `dbg.generated.lock().unwrap()`, a blocking acquisition;
\* the guard `fig` lives to the end of the block (line 295)
RenderLock ==
    /\ pc = "lock"
    /\ lockHolder[runtime] = "none"
    /\ lockHolder' = [lockHolder EXCEPT ![runtime] = "ui"]
    /\ pc' = "project"
    /\ UNCHANGED <<panelVars, projected, seen, created, chanVars, generated,
                   workerVars>>

\* main, lines 258-265: project a clone of the figure, under the guard.
\* The viewport is computed first (line 262).  In a window narrower than
\* the panel the subtraction overflows: a build with overflow checks panics
\* there, and the unwinding drops the guard `fig`, which poisons the mutex;
\* a build without them goes on with the wrapped width.  Either build can
\* be the one that runs.  The unwinding then goes on to the locals of main
\* (Unwind).
RenderProject ==
    /\ pc = "project"
    /\ \E w \in ScreenWidths, h \in ScreenHeights, overflow_checks \in BOOLEAN :
          LET overflows ==
                  OverflowingSub(Usize(w), Usize(PanelWidth)).overflow
              panics == overflows /\ overflow_checks
          IN  /\ pc' = IF panics THEN "unwinding" ELSE "draw"
              /\ projected' = IF panics THEN projected
                               ELSE Project(generated[runtime], Viewport(w, h))
              /\ seen' = IF panics THEN seen ELSE projected'.cycles
              /\ lockHolder' = IF panics
                                THEN [lockHolder EXCEPT ![runtime] = "poisoned"]
                                ELSE lockHolder
    /\ UNCHANGED <<panelVars, created, chanVars, generated, workerVars>>

\* main, lines 267-295: draw the items; the block ends, `figure` and the
\* guard are dropped
RenderDraw ==
    /\ pc = "draw"
    /\ projected' = NoProjection
    /\ lockHolder' = [lockHolder EXCEPT ![runtime] = "none"]
    /\ pc' = "show"
    /\ UNCHANGED <<panelVars, seen, created, chanVars, generated, workerVars>>

(***************************************************************************)
(* The control panel, Debugger::show.  One frame carries at most one input *)
(* event: a click on a button that is shown, an edit of a text field, or a *)
(* selection in the file dialog.                                           *)
(***************************************************************************)
Buttons == { "Quit", "Stop", "Run", "Next step", "Open", "Change", "Generate" }

UIEvents ==
    { [type |-> "none", arg |-> <<>>] }
    \cup { [type |-> "click", arg |-> <<b>>] : b \in Buttons }
    \cup { [type |-> "worker_count", arg |-> t] : t \in WorkerCountTexts }
    \cup { [type |-> "max_adjustment", arg |-> t] : t \in MaxAdjustmentTexts }
    \cup { [type |-> "select", arg |-> <<p>>] : p \in Paths }

\* The inputs of an operator who leaves the two text fields as they are and
\* picks a file that loads.
SessionEvents ==
    { [type |-> "none", arg |-> <<>>] }
    \cup { [type |-> "click", arg |-> <<b>>] : b \in Buttons }
    \cup { [type |-> "select", arg |-> <<"good">>] }

\* which widgets show() builds in this frame (lines 100-167)
Shown(b) ==
    CASE b = "Quit" -> runtime # NoRuntime
      [] b = "Stop" -> runtime # NoRuntime /\ run
      [] b = "Run" -> runtime # NoRuntime /\ ~run
      [] b = "Next step" -> runtime # NoRuntime /\ ~run
      [] b = "Open" -> runtime = NoRuntime /\ file = NoFile
      [] b = "Change" -> runtime = NoRuntime /\ file # NoFile
      [] b = "Generate" -> runtime = NoRuntime

Possible(ev) ==
    CASE ev.type = "none" -> TRUE
      [] ev.type = "click" -> Shown(ev.arg[1])
      [] ev.type = "worker_count" -> runtime = NoRuntime
      [] ev.type = "max_adjustment" -> runtime = NoRuntime
      [] ev.type = "select" -> dialogOpen

\* A panel that sends a Next in the frame in which Stop is clicked as well.
SendsNextEvenOnStop(isRun, stopClicked, nextClicked) ==
    IF isRun THEN TRUE ELSE nextClicked

\* lines 105-119: whether this frame sends a Next
SendsNext(isRun, stopClicked, nextClicked) ==
    IF isRun THEN ~stopClicked ELSE nextClicked

\* lines 105-114: the run flag after the buttons
RunAfter(isRun, stopClicked, runClicked) ==
    IF isRun THEN ~stopClicked ELSE runClicked

\* A Quit that leaves the run flag as it is.
RunKeptAfterQuit == run

\* line 205: the run flag after a Quit
RunAfterQuit == FALSE

\* lines 178-180: the three `if let Some` that guard the creation
StartsSession(wc, ma, script) == wc.some /\ ma.some /\ script.some

\* Runtime::drop, line 40: what the teardown sends
DropMessages == <<Quit>>

NextCount(log) == Cardinality({ i \in 1..Len(log) : log[i] = NextMsg })

ShowWithin(ev, maxSessions, maxNext) ==
    LET clicked(b) == ev.type = "click" /\ ev.arg = <<b>>
        s == runtime
        active == runtime # NoRuntime
        quit == active /\ clicked("Quit")
        sendsNext == active /\ SendsNext(run, clicked("Stop"), clicked("Next step"))
        msgs == (IF sendsNext THEN <<NextMsg>> ELSE <<>>)
                \o (IF quit THEN DropMessages ELSE <<>>)
        panics == msgs # <<>> /\ ~receiverAlive[s]
        wcText == IF ev.type = "worker_count" THEN ev.arg ELSE worker_count
        maText == IF ev.type = "max_adjustment" THEN ev.arg ELSE max_adjustment
        generate == ~active /\ clicked("Generate")
        wc == ParseUsize(wcText)
        ma == ParseF64(maText)
        script == LoadFile(file)
        start == generate /\ StartsSession(wc, ma, script)
        n == created + 1
    IN  /\ pc = "show"
        /\ Possible(ev)
        /\ sendsNext => NextCount(sent[s]) < maxNext
        /\ start => created < maxSessions
        /\ pc' = IF panics THEN "panicked" ELSE "frame"
        /\ worker_count' = wcText
        /\ max_adjustment' = maText
        /\ file_valid' = IF generate THEN script.some ELSE file_valid
        /\ worker_count_valid' = IF generate THEN wc.some ELSE worker_count_valid
        /\ max_adjustment_valid' = IF generate THEN ma.some ELSE max_adjustment_valid
        /\ lastClick' = IF ev.type = "click" THEN ev.arg[1] ELSE ""
        /\ seen' = IF quit \/ start THEN 0 ELSE seen
        /\ run' = IF panics THEN run
                  ELSE IF quit THEN RunAfterQuit
                  ELSE IF active THEN RunAfter(run, clicked("Stop"), clicked("Run"))
                  ELSE run
        /\ runtime' = IF panics THEN runtime
                      ELSE IF quit THEN NoRuntime
                      ELSE IF start THEN n
                      ELSE runtime
        /\ dialogOpen' = IF clicked("Open") \/ clicked("Change") THEN TRUE
                         ELSE IF ev.type = "select" THEN FALSE
                         ELSE dialogOpen
        /\ file' = IF ev.type = "select" THEN ev.arg[1] ELSE file
        /\ control' = IF active /\ ~panics
                      THEN [control EXCEPT ![s] = @ \o msgs]
                      ELSE control
        /\ sent' = IF active /\ ~panics
                   THEN [sent EXCEPT ![s] = @ \o msgs]
                   ELSE sent
        /\ senderAlive' = IF quit /\ ~panics THEN [senderAlive EXCEPT ![s] = FALSE]
                          ELSE IF start THEN [senderAlive EXCEPT ![n] = TRUE]
                          ELSE senderAlive
        /\ receiverAlive' = IF start THEN [receiverAlive EXCEPT ![n] = TRUE]
                            ELSE receiverAlive
        /\ created' = IF start THEN n ELSE created
        /\ generated' = IF start THEN [generated EXCEPT ![n] = GeneratedDefault]
                        ELSE generated
        /\ wpc' = IF start THEN [wpc EXCEPT ![n] = "start"] ELSE wpc
        /\ rage' = IF start THEN [rage EXCEPT ![n] = RageNew(wc.val, script.val)]
                   ELSE rage
        /\ rage0' = IF start THEN [rage0 EXCEPT ![n] = RageNew(wc.val, script.val)]
                    ELSE rage0
        /\ wma' = IF start THEN [wma EXCEPT ![n] = ma.val] ELSE wma
        /\ UNCHANGED <<projected, lockHolder, magnitudes, fig>>

Show(ev) == ShowWithin(ev, MaxSessions, MaxNext)

PanelShow(ev) == ShowWithin(ev, PanelMaxSessions, PanelMaxNext)

\* The unwinding of the panic of line 262 drops `debugger`, a local of main,
\* and with it the Runtime: Runtime::drop (line 40) sends Quit and the
\* sender is dropped.  When the worker has already ended and dropped the
\* receiver the send fails, the unwrap panics inside the unwinding and the
\* process aborts.
Unwind ==
    LET s == runtime
        fails == DropMessages # <<>> /\ ~receiverAlive[s]
    IN  /\ pc = "unwinding"
        /\ pc' = IF fails THEN "aborted" ELSE "exiting"
        /\ control' = IF fails THEN control
                       ELSE [control EXCEPT ![s] = @ \o DropMessages]
        /\ sent' = IF fails THEN sent
                    ELSE [sent EXCEPT ![s] = @ \o DropMessages]
        /\ senderAlive' = IF fails THEN senderAlive
                           ELSE [senderAlive EXCEPT ![s] = FALSE]
        /\ UNCHANGED <<panelVars, projected, seen, created, receiverAlive,
                       rage0, generated, lockHolder, workerVars>>

\* main has unwound: the process ends, and every thread with it
ProcessExit ==
    /\ pc = "exiting"
    /\ pc' = "exited"
    /\ UNCHANGED <<panelVars, projected, seen, created, chanVars, generated,
                   lockHolder, workerVars>>

\* the process has neither exited nor aborted
Running == pc \notin { "exited", "aborted" }

(***************************************************************************)
(* The worker thread of session s: fn runtime.                             *)
(***************************************************************************)
\* A startup that publishes a figure of the fresh optimizer before any Next.
WorkerBakePublishing(s) ==
    /\ wpc[s] = "start"
    /\ magnitudes' = [magnitudes EXCEPT ![s] = BakeMagnitudes(rage[s], wma[s])]
    /\ generated' = [generated EXCEPT ![s] = GetFigure(rage[s])]
    /\ wpc' = [wpc EXCEPT ![s] = "recv"]
    /\ UNCHANGED <<uiVars, created, chanVars, lockHolder, rage, wma, fig>>

\* line 51: the magnitudes are baked before the loop
WorkerBake(s) ==
    /\ wpc[s] = "start"
    /\ magnitudes' = [magnitudes EXCEPT ![s] = BakeMagnitudes(rage[s], wma[s])]
    /\ wpc' = [wpc EXCEPT ![s] = "recv"]
    /\ UNCHANGED <<uiVars, created, chanVars, generated, lockHolder, rage,
                   wma, fig>>

\* A loop that drops a Next without stepping the optimizer.
AfterRecvSkippingNext(m) == IF m = Quit THEN "done" ELSE "recv"

\* A loop that does not leave on Quit.
AfterRecvIgnoringQuit(m) == IF m = Quit THEN "recv" ELSE "cycle"

\* lines 54-56: where a received message leads
AfterRecv(m) == IF m = Quit THEN "done" ELSE "cycle"

\* line 54: control.recv().unwrap() blocks while the queue is empty and the
\* sender lives; on an empty queue whose sender is gone it fails.  When the
\* loop is left the thread ends and drops the receiver.
WorkerRecv(s) ==
    /\ wpc[s] = "recv"
    /\ control[s] # <<>> \/ ~senderAlive[s]
    /\ wpc' = [wpc EXCEPT ![s] = IF control[s] = <<>> THEN "panicked"
                                 ELSE AfterRecv(Head(control[s]))]
    /\ control' = [control EXCEPT ![s] = IF @ = <<>> THEN @ ELSE Tail(@)]
    /\ receiverAlive' = [receiverAlive EXCEPT
                            ![s] = wpc'[s] \notin { "done", "panicked" }]
    /\ UNCHANGED <<uiVars, created, senderAlive, sent, rage0, generated,
                   lockHolder, rage, magnitudes, wma, fig>>

\* A step whose figure is not materialized before the lock is taken.
WorkerCycleLeavingFigure(s) ==
    /\ wpc[s] = "cycle"
    /\ rage' = [rage EXCEPT ![s] = CyclePrebaked(@, magnitudes[s])]
    /\ wpc' = [wpc EXCEPT ![s] = "lock"]
    /\ UNCHANGED <<uiVars, created, chanVars, generated, lockHolder,
                   magnitudes, wma, fig>>

\* A step that bakes the magnitudes again from the current optimizer state.
WorkerCycleRebaking(s) ==
    /\ wpc[s] = "cycle"
    /\ magnitudes' = [magnitudes EXCEPT ![s] = BakeMagnitudes(rage[s], wma[s])]
    /\ rage' = [rage EXCEPT ![s] = CyclePrebaked(@, magnitudes'[s])]
    /\ fig' = [fig EXCEPT ![s] = GetFigure(rage'[s])]
    /\ wpc' = [wpc EXCEPT ![s] = "lock"]
    /\ UNCHANGED <<uiVars, created, chanVars, generated, lockHolder, wma>>

\* lines 57-58: one optimizer cycle, then the figure is materialized
WorkerCycle(s) ==
    /\ wpc[s] = "cycle"
    /\ rage' = [rage EXCEPT ![s] = CyclePrebaked(@, magnitudes[s])]
    /\ fig' = [fig EXCEPT ![s] = GetFigure(rage'[s])]
    /\ wpc' = [wpc EXCEPT ![s] = "lock"]
    /\ UNCHANGED <<uiVars, created, chanVars, generated, lockHolder,
                   magnitudes, wma>>

\* A writer that does not wait for the lock.
WorkerLockNotWaiting(s) ==
    /\ wpc[s] = "lock"
    /\ lockHolder' = [lockHolder EXCEPT ![s] = "worker"]
    /\ wpc' = [wpc EXCEPT ![s] = "write"]
    /\ UNCHANGED <<uiVars, created, chanVars, generated, rage, magnitudes,
                   wma, fig>>

\* line 59: generated.lock().unwrap() blocks while the lock is held; on a
\* poisoned mutex lock() returns an error, the unwrap panics and the thread
\* ends, which drops the receiver
WorkerLock(s) ==
    /\ wpc[s] = "lock"
    /\ lockHolder[s] \in { "none", "poisoned" }
    /\ lockHolder' = IF lockHolder[s] = "poisoned" THEN lockHolder
                      ELSE [lockHolder EXCEPT ![s] = "worker"]
    /\ wpc' = [wpc EXCEPT ![s] = IF lockHolder[s] = "poisoned"
                                 THEN "poisoned" ELSE "write"]
    /\ receiverAlive' = [receiverAlive EXCEPT
                            ![s] = lockHolder[s] # "poisoned"]
    /\ UNCHANGED <<uiVars, created, control, senderAlive, sent, rage0,
                   generated, rage, magnitudes, wma, fig>>

\* A write whose guard outlives the statement.
WorkerWriteKeepingLock(s) ==
    /\ wpc[s] = "write"
    /\ generated' = [generated EXCEPT ![s] = fig[s]]
    /\ wpc' = [wpc EXCEPT ![s] = "recv"]
    /\ UNCHANGED <<uiVars, created, chanVars, lockHolder, rage, magnitudes,
                   wma, fig>>

\* A write that lands in the slot of whichever session the panel holds.
WorkerWriteToCurrent(s) ==
    /\ wpc[s] = "write"
    /\ generated' = [generated EXCEPT
                        ![IF runtime # NoRuntime THEN runtime ELSE s] = fig[s]]
    /\ lockHolder' = [lockHolder EXCEPT ![s] = "none"]
    /\ wpc' = [wpc EXCEPT ![s] = "recv"]
    /\ UNCHANGED <<uiVars, created, chanVars, rage, magnitudes, wma, fig>>

\* line 59: the assignment through the guard, which is dropped at the end
\* of the statement
WorkerWrite(s) ==
    /\ wpc[s] = "write"
    /\ generated' = [generated EXCEPT ![s] = fig[s]]
    /\ lockHolder' = [lockHolder EXCEPT ![s] = "none"]
    /\ wpc' = [wpc EXCEPT ![s] = "recv"]
    /\ UNCHANGED <<uiVars, created, chanVars, rage, magnitudes, wma, fig>>

Worker(s) ==
    /\ Running
    /\ \/ WorkerBake(s)
       \/ WorkerRecv(s)
       \/ WorkerCycle(s)
       \/ WorkerLock(s)
       \/ WorkerWrite(s)

Next ==
    \/ FrameStart
    \/ RenderLock
    \/ RenderProject
    \/ RenderDraw
    \/ Unwind
    \/ ProcessExit
    \/ \E ev \in SessionEvents : Show(ev)
    \/ \E s \in Sessions : Worker(s)

Spec == Init /\ [][Next]_vars

\* The same program with every input of the start-up form.
PanelNext ==
    \/ FrameStart
    \/ RenderLock
    \/ RenderProject
    \/ RenderDraw
    \/ Unwind
    \/ ProcessExit
    \/ \E ev \in UIEvents : PanelShow(ev)
    \/ \E s \in Sessions : Worker(s)

PanelSpec == Init /\ [][PanelNext]_vars

\* The same program under fair thread scheduling: a worker thread that can
\* take a step eventually takes one.
FairShow(ev) == ShowWithin(ev, FairMaxSessions, FairMaxNext)

FairNext ==
    \/ FrameStart
    \/ RenderLock
    \/ RenderProject
    \/ RenderDraw
    \/ Unwind
    \/ ProcessExit
    \/ \E ev \in SessionEvents : FairShow(ev)
    \/ \E s \in Sessions : Worker(s)

FairSpec ==
    Init /\ [][FairNext]_vars /\ \A s \in Sessions : WF_vars(Worker(s))

(***************************************************************************)
(* Vocabulary of the properties.                                           *)
(***************************************************************************)
Created == 1..created
QuitSent(s) == \E i \in 1..Len(sent[s]) : sent[s][i] = Quit
QuitCount(log) == Cardinality({ i \in 1..Len(log) : log[i] = Quit })

\* n optimizer steps, one after the other
RECURSIVE CycleTimes(_, _, _)
CycleTimes(r, m, n) ==
    IF n = 0 THEN r ELSE CyclePrebaked(CycleTimes(r, m, n - 1), m)

\* the Next messages of session s that are queued or being processed
InFlight(s) ==
    NextCount(control[s])
    + (IF wpc[s] \in { "cycle", "lock", "write" } THEN 1 ELSE 0)

(***************************************************************************)
(* C1  Step count fidelity: once the worker has drained N >= 1 Next (queue *)
(* empty, worker idle in recv) the slot holds the figure materialized from *)
(* the optimizer after exactly N steps from its initial state; at every    *)
(* moment the cycles performed are exactly the Next received and stepped,  *)
(* none skipped and none duplicated.                                       *)
(***************************************************************************)
StepCountFidelity ==
    \A s \in Created :
        /\ rage[s].cycles + NextCount(control[s])
             + (IF wpc[s] = "cycle" THEN 1 ELSE 0) = NextCount(sent[s])
        /\ (wpc[s] = "recv" /\ control[s] = <<>> /\ NextCount(sent[s]) >= 1)
             => generated[s] = GetFigure(CycleTimes(rage0[s], magnitudes[s],
                                                   NextCount(sent[s])))

StepCountFidelityWitness ==
    \E s \in Created :
        /\ wpc[s] = "recv"
        /\ control[s] = <<>>
        /\ NextCount(sent[s]) >= 2
        /\ generated[s] = [kind |-> "generated", cycles |-> NextCount(sent[s])]

(***************************************************************************)
(* C2  Teardown ordering, safety part: once the Quit of a session has been *)
(* sent, its worker takes no further Next off the channel, starts no       *)
(* optimizer step and writes the slot no more.                             *)
(***************************************************************************)
NoNextAfterTeardown ==
    [][\A s \in Sessions :
          QuitSent(s) =>
              /\ ~(wpc[s] = "recv" /\ wpc'[s] = "cycle")
              /\ rage'[s] = rage[s]]_vars

(***************************************************************************)
(* C3  Teardown liveness: after the Quit of a session has been sent, its   *)
(* worker thread eventually ends: it leaves the receive loop on the Quit,  *)
(* or it ends on the mutex poisoned by the overflow of line 262, or the    *)
(* whole process ends.                                                     *)
(***************************************************************************)
Ended(s) == wpc[s] \in { "done", "poisoned" } \/ ~Running

TeardownTerminates ==
    \A s \in Sessions : QuitSent(s) ~> Ended(s)

TeardownTerminatesWitness ==
    \E s \in Created :
        /\ wpc[s] = "done"
        /\ NextCount(sent[s]) >= 2
        /\ rage[s].cycles = NextCount(sent[s])

(***************************************************************************)
(* C4  Back-pressure in continuous run: at most one Next of a session is   *)
(* in flight (queued or being processed) in every reachable state.         *)
(***************************************************************************)
AtMostOneNextInFlight == \A s \in Sessions : InFlight(s) <= 1

(***************************************************************************)
(* C5  Reader lock discipline: the UI thread holds the slot's lock only    *)
(* while copying the figure out, never while it draws the projection, so   *)
(* no worker waits for the lock during a draw.                             *)
(***************************************************************************)
ReaderHoldsLockOnlyToCopy ==
    \A s \in Sessions : pc = "draw" => lockHolder[s] # "ui"

(***************************************************************************)
(* C6  No UI blocking.  As claimed: the UI thread is never suspended       *)
(* waiting for a lock that the worker holds.                               *)
(***************************************************************************)
UINeverWaitsForWorker ==
    ~(pc = "lock" /\ lockHolder[runtime] = "worker")

(***************************************************************************)
(* C6 as amended: the UI thread's acquisition blocks, but whenever it      *)
(* waits the worker is inside the replacement of the slot's value: the     *)
(* worker holds the lock in no other place (not while it receives, steps   *)
(* the optimizer or materializes).                                         *)
(***************************************************************************)
UIWaitsOnlyForReplacement ==
    /\ \A s \in Sessions : lockHolder[s] = "worker" <=> wpc[s] = "write"
    /\ (pc = "lock" /\ lockHolder[runtime] = "worker") => wpc[runtime] = "write"

UIWaitsOnlyForReplacementWitness ==
    /\ pc = "lock"
    /\ runtime # NoRuntime
    /\ lockHolder[runtime] = "worker"
    /\ wpc[runtime] = "write"

(***************************************************************************)
(* C7  Quit protocol: a channel carries at most one Quit, and exactly one  *)
(* once its session is torn down; the Quit is sent by the step that drops  *)
(* the Runtime and by no other; nothing is sent on the channel after it.   *)
(***************************************************************************)
TornDown(s) == runtime # s \/ pc \in { "exiting", "exited", "aborted" }

QuitProtocolState ==
    \A s \in Created :
        /\ QuitCount(sent[s]) = (IF TornDown(s) THEN 1 ELSE 0)
        /\ QuitSent(s) => sent[s][Len(sent[s])] = Quit

QuitProtocolStep ==
    \A s \in Sessions :
        /\ QuitSent(s) => sent'[s] = sent[s]
        /\ QuitCount(sent'[s]) > QuitCount(sent[s])
             => runtime = s /\ (runtime' = NoRuntime \/ pc = "unwinding")

QuitProtocol == []QuitProtocolState /\ [][QuitProtocolStep]_vars

(***************************************************************************)
(* C8  Channel disconnection is unreachable: no worker receives on an      *)
(* empty channel whose sender is gone, the UI thread sends only on a       *)
(* channel whose receiver lives (a Runtime not yet dropped has its sender  *)
(* and a live receiver), and so no unwrap of a recv or of a send fails.    *)
(***************************************************************************)
NoDisconnection ==
    /\ pc \notin { "panicked", "aborted" }
    /\ (runtime # NoRuntime /\ pc \notin { "exiting", "exited" })
         => senderAlive[runtime] /\ receiverAlive[runtime]
    /\ \A s \in Created :
          /\ wpc[s] # "panicked"
          /\ ~(wpc[s] \in { "start", "recv", "cycle", "lock", "write" }
               /\ control[s] = <<>> /\ ~senderAlive[s])

(***************************************************************************)
(* C9  Idle session stability: while no Next has been sent on a session,   *)
(* its slot holds the default figure, whatever the render loop and the     *)
(* worker's startup have done.                                             *)
(***************************************************************************)
IdleSlotStable ==
    \A s \in Created :
        NextCount(sent[s]) = 0 => generated[s] = GeneratedDefault

IdleSlotStableWitness ==
    \E s \in Created :
        /\ runtime = s
        /\ sent[s] = <<>>
        /\ wpc[s] = "recv"
        /\ magnitudes[s].baked
        /\ pc = "draw"
        /\ projected.items = "empty"
        /\ projected.cycles = 0

(***************************************************************************)
(* C10  Validation gating: a Generate click creates a session if and only  *)
(* if the file loads, the worker count is a positive integer and the       *)
(* adjustment bound is a positive number.                                  *)
(***************************************************************************)
PositiveInteger(text) == ParseUsize(text).some /\ ParseUsize(text).val > 0
PositiveNumber(text) ==
    /\ ParseF64(text).some
    /\ ~ParseF64(text).val.neg
    /\ ParseF64(text).val.digits > 0

GenerateClick == [type |-> "click", arg |-> <<"Generate">>]

ValidationGating ==
    [][PanelShow(GenerateClick) =>
          (created' = created + 1
             <=> /\ LoadFile(file).some
                 /\ PositiveInteger(worker_count)
                 /\ PositiveNumber(max_adjustment))]_vars

(***************************************************************************)
(* C11  Field-level error reporting: after a Generate click each validity  *)
(* flag tells whether its own field is valid (the file loads, the worker   *)
(* count is a positive integer, the bound is a positive number), whatever  *)
(* the other two are; and when a field is invalid no session is created:   *)
(* the panel stays without a Runtime and no channel, slot, optimizer or    *)
(* worker thread comes to exist.                                           *)
(***************************************************************************)
FieldLevelErrors ==
    [][PanelShow(GenerateClick) =>
          /\ file_valid' = LoadFile(file).some
          /\ worker_count_valid' = PositiveInteger(worker_count)
          /\ max_adjustment_valid' = PositiveNumber(max_adjustment)
          /\ ~(file_valid' /\ worker_count_valid' /\ max_adjustment_valid')
               => /\ runtime' = NoRuntime
                  /\ created' = created
                  /\ wpc' = wpc
                  /\ control' = control
                  /\ generated' = generated]_vars

\* the worker thread of session s has been spawned and has not ended
Live(s) == wpc[s] \in { "start", "recv", "cycle", "lock", "write" } /\ Running

(***************************************************************************)
(* C12  Thread population: at most one worker thread is live at any time,  *)
(* and while a session is active (its Runtime exists and has not been      *)
(* dropped) the live worker is its own, so the worker of a quit session    *)
(* never runs beside the worker of a session started after it.             *)
(***************************************************************************)
AtMostOneLiveWorker ==
    /\ Cardinality({ s \in Sessions : Live(s) }) <= 1
    /\ (runtime # NoRuntime /\ ~TornDown(runtime))
         => { s \in Sessions : Live(s) } = { runtime }

\* The program under fair scheduling of both threads: the render loop goes
\* on through its frame, a worker that can take a step eventually takes
\* one, and a thread waiting for a lock that is free again and again
\* eventually gets it.
LockFairSpec ==
    /\ Init /\ [][FairNext]_vars
    /\ WF_vars(RenderLock) /\ WF_vars(RenderProject) /\ WF_vars(RenderDraw)
    /\ WF_vars(Unwind) /\ WF_vars(ProcessExit)
    /\ \A s \in Sessions :
          WF_vars(Worker(s)) /\ SF_vars(Running /\ WorkerLock(s))

(***************************************************************************)
(* C13  Lock progress: the two threads never deadlock on the slot, and     *)
(* under fair scheduling a thread that attempts to acquire the slot's lock *)
(* eventually holds it: the render loop gets from its lock() to the        *)
(* projection, the worker from its lock() to the write.                    *)
(***************************************************************************)
LockProgress ==
    /\ (pc = "lock") ~> (pc = "project")
    /\ \A s \in Sessions : (wpc[s] = "lock") ~> (wpc[s] = "write")

(***************************************************************************)
(* C14  Writer lock discipline: the worker has finished the optimizer step *)
(* and materialized the figure before it asks for the lock; it holds the   *)
(* lock only in the statement that replaces the slot's value and has       *)
(* released it when it receives again; a write replaces the one figure the *)
(* slot holds by the figure just materialized.                             *)
(***************************************************************************)
WriterLockState ==
    \A s \in Sessions :
        /\ wpc[s] \in { "lock", "write" }
             => fig[s] = GetFigure(rage[s]) /\ rage[s].cycles >= 1
        /\ wpc[s] = "write" => lockHolder[s] = "worker"
        /\ wpc[s] \in { "unborn", "start", "recv", "cycle", "lock", "done" }
             => lockHolder[s] # "worker"
        /\ generated[s].kind \in { "default", "generated" }
        /\ generated[s].cycles \in 0..NextCount(sent[s])

WriterLockStep ==
    \A s \in Sessions :
        generated'[s] # generated[s]
            => /\ wpc[s] = "write"
               /\ lockHolder[s] = "worker"
               /\ generated'[s] = fig[s]
               /\ lockHolder'[s] = "none"
               /\ wpc'[s] = "recv"

WriterLockDiscipline == []WriterLockState /\ [][WriterLockStep]_vars

WriterLockDisciplineWitness ==
    \E s \in Created :
        /\ wpc[s] = "write"
        /\ lockHolder[s] = "worker"
        /\ generated[s] = [kind |-> "generated", cycles |-> 1]
        /\ fig[s] = [kind |-> "generated", cycles |-> 2]

\* the Next messages a step adds to the channel of session s
NextAdded(s) == NextCount(sent'[s]) - NextCount(sent[s])

\* the step is one call of show(): a frame of the control panel
PanelFrame == pc = "show" /\ pc' = "frame"

(***************************************************************************)
(* C15  Next-per-frame rule: a frame of the panel enqueues exactly one     *)
(* Next, on the session's channel, when a session exists and either run is *)
(* on and Stop is not clicked, or run is off and 'Next step' is clicked;   *)
(* it enqueues none in every other case (no session, Stop clicked, Run     *)
(* clicked alone); nothing but a frame of the panel enqueues a Next.       *)
(***************************************************************************)
NextPerFrame ==
    [][/\ ~PanelFrame => \A s \in Sessions : NextAdded(s) = 0
       /\ PanelFrame =>
            IF /\ runtime # NoRuntime
               /\ \/ run /\ lastClick' # "Stop"
                  \/ ~run /\ lastClick' = "Next step"
            THEN \A s \in Sessions :
                     NextAdded(s) = (IF s = runtime THEN 1 ELSE 0)
            ELSE \A s \in Sessions : NextAdded(s) = 0]_vars

NextPerFrameWitness ==
    /\ pc = "frame"
    /\ lastClick = "Run"
    /\ run
    /\ runtime # NoRuntime
    /\ sent[runtime] = <<>>

(***************************************************************************)
(* C16  Stop keeps the session alive: the frame in which Stop is clicked   *)
(* clears the run flag and does nothing else: it sends nothing and leaves  *)
(* the session, its channel, its slot and its worker as they are.  In      *)
(* every state the worker of the session that exists (its Runtime has not  *)
(* been dropped) has not terminated, and a worker terminates only after    *)
(* its own session's Quit was sent.                                        *)
(***************************************************************************)
WorkerAliveWhileSession ==
    /\ (runtime # NoRuntime /\ ~TornDown(runtime)) => Live(runtime)
    /\ \A s \in Sessions : wpc[s] = "done" => QuitSent(s)

StopStep ==
    /\ (PanelFrame /\ lastClick' = "Stop")
         => /\ run /\ ~run'
            /\ runtime' = runtime
            /\ sent' = sent
            /\ control' = control
            /\ senderAlive' = senderAlive
            /\ receiverAlive' = receiverAlive
            /\ generated' = generated
            /\ lockHolder' = lockHolder
            /\ wpc' = wpc
    /\ \A s \in Sessions :
          (wpc[s] # "done" /\ wpc'[s] = "done") => QuitSent(s)

StopKeepsSession == []WorkerAliveWhileSession /\ [][StopStep]_vars

(***************************************************************************)
(* C17  Precompute once: a worker has baked its magnitudes exactly when it *)
(* has left its startup, which is before its first receive and before any  *)
(* optimizer cycle; the baked value is the one computed from the optimizer *)
(* and the adjustment the thread was started with; it changes only in the  *)
(* startup step, and every cycle runs with that same value and leaves it   *)
(* unchanged.                                                              *)
(***************************************************************************)
BakedAtStartup ==
    \A s \in Sessions :
       /\ wpc[s] \in { "unborn", "start" } <=> ~magnitudes[s].baked
       /\ ~magnitudes[s].baked
            => /\ rage[s] # NoRage => rage[s].cycles = 0
               /\ control[s] = sent[s]
       /\ magnitudes[s].baked
            => magnitudes[s] = BakeMagnitudes(rage0[s], wma[s])

BakedOnceStep ==
    \A s \in Sessions :
       /\ (magnitudes'[s] # magnitudes[s] /\ s \in Created)
            => /\ wpc[s] = "start"
               /\ ~magnitudes[s].baked
               /\ magnitudes'[s] = BakeMagnitudes(rage0[s], wma[s])
       /\ (s \in Created /\ rage[s] # NoRage /\ rage'[s] # rage[s])
            => /\ rage'[s] = CyclePrebaked(rage[s], BakeMagnitudes(rage0[s], wma[s]))
               /\ magnitudes[s] = BakeMagnitudes(rage0[s], wma[s])
               /\ magnitudes'[s] = magnitudes[s]

PrecomputeOnce == []BakedAtStartup /\ [][BakedOnceStep]_vars

PrecomputeOnceWitness ==
    \E s \in Created :
       /\ wpc[s] = "recv"
       /\ rage[s].cycles = 2
       /\ magnitudes[s] = BakeMagnitudes(rage0[s], wma[s])

(***************************************************************************)
(* C18  Panel state invariant: in every state the run flag is set only     *)
(* while a session exists.  The flag is turned on only by a click on Run   *)
(* in a frame that keeps the session; the frame that drops the session     *)
(* clears the flag; a session is created only when there is none, and it   *)
(* starts with the flag clear and nothing sent; a Next is sent only in a   *)
(* frame that began with the flag set or in which 'Next step' was clicked. *)
(***************************************************************************)
RunOnlyWithSession == run => runtime # NoRuntime

PanelStateStep ==
    /\ (~run /\ run')
         => /\ runtime # NoRuntime
            /\ runtime' = runtime
            /\ lastClick' = "Run"
    /\ (runtime # NoRuntime /\ runtime' = NoRuntime)
         => /\ ~run'
            /\ lastClick' = "Quit"
    /\ (runtime' # NoRuntime /\ runtime' # runtime)
         => /\ runtime = NoRuntime
            /\ ~run /\ ~run'
            /\ sent'[runtime'] = <<>>
            /\ control'[runtime'] = <<>>
    /\ \A s \in Sessions :
          NextAdded(s) > 0
             => /\ s = runtime
                /\ run \/ lastClick' = "Next step"

PanelStateInvariant == []RunOnlyWithSession /\ [][PanelStateStep]_vars

PanelStateInvariantWitness ==
    /\ pc = "frame"
    /\ lastClick = "Generate"
    /\ runtime = 2
    /\ ~run
    /\ sent[2] = <<>>
    /\ NextCount(sent[1]) >= 1
    /\ QuitSent(1)

(***************************************************************************)
(* C19  Observed-figure monotonicity: every slot holds either the default  *)
(* figure or the figure of k optimizer cycles with 1 <= k <= the number of *)
(* Next sent on its session.  While the render loop reads and draws it     *)
(* holds the lock and the session's worker is not writing, so what it      *)
(* projected is the projection of the whole slot content.  Each read of    *)
(* the slot sees at least as many cycles as the previous read of the same  *)
(* session, and the cycle count of a slot never decreases.                 *)
(***************************************************************************)
WholeFigure(g, s) ==
    \/ g = GeneratedDefault
    \/ /\ g.kind = "generated"
       /\ g.cycles >= 1
       /\ g.cycles <= NextCount(sent[s])

ObservedWhole ==
    /\ \A s \in Created : WholeFigure(generated[s], s)
    /\ pc \in { "project", "draw" }
         => /\ runtime # NoRuntime
            /\ lockHolder[runtime] = "ui"
            /\ wpc[runtime] # "write"
    /\ pc = "draw"
         => /\ projected = Project(generated[runtime], projected.viewport)
            /\ projected.cycles = seen

ObservedStep ==
    /\ (pc = "project" /\ pc' = "draw") => projected'.cycles >= seen
    /\ \A s \in Created : generated'[s].cycles >= generated[s].cycles

ObservedMonotonic == []ObservedWhole /\ [][ObservedStep]_vars

ObservedMonotonicWitness ==
    /\ pc = "draw"
    /\ projected.items = "drawn"
    /\ projected.cycles = 1
    /\ NextCount(sent[runtime]) = 2
    /\ wpc[runtime] = "lock"
    /\ fig[runtime].cycles = 2

(***************************************************************************)
(* C20  Session isolation: the slot of a session is changed only by that   *)
(* session's own worker, in its write step and to the figure that worker   *)
(* materialized; a message leaves a session's channel only in a receive of *)
(* that session's worker; a step of one session's worker leaves every      *)
(* other session's channel, slot, lock, optimizer and worker as they are.  *)
(* The cycles a slot shows never exceed the Next commands its own worker   *)
(* has taken from its own channel.  This holds for the workers of sessions *)
(* that were quit as well as for the current one.                          *)
(***************************************************************************)
SlotFromOwnChannel ==
    \A s \in Created :
       generated[s].cycles <= NextCount(sent[s]) - NextCount(control[s])

IsolationStep ==
    \A s \in Created :
       /\ generated'[s] # generated[s]
            => /\ wpc[s] = "write" /\ wpc'[s] = "recv"
               /\ lockHolder[s] = "worker"
               /\ generated'[s] = fig[s]
       /\ Len(control'[s]) < Len(control[s])
            => /\ wpc[s] = "recv"
               /\ control'[s] = Tail(control[s])
       /\ \A t \in Created \ { s } :
             wpc'[t] # wpc[t]
               => /\ control'[s] = control[s]
                  /\ sent'[s] = sent[s]
                  /\ generated'[s] = generated[s]
                  /\ lockHolder'[s] = lockHolder[s]
                  /\ rage'[s] = rage[s]
                  /\ magnitudes'[s] = magnitudes[s]
                  /\ fig'[s] = fig[s]
                  /\ wpc'[s] = wpc[s]

SessionIsolation == []SlotFromOwnChannel /\ [][IsolationStep]_vars

SessionIsolationWitness ==
    /\ created = 2
    /\ runtime = 2
    /\ QuitSent(1)
    /\ wpc[1] = "write"
    /\ fig[1].cycles = 2
    /\ generated[1].cycles = 1
    /\ generated[2].cycles = 1
    /\ NextCount(sent[2]) = 1

====
